---- MODULE Spec2Model ----
(***************************************************************************)
(* World Store Service: GET /api/world (get_world) and POST /api/world     *)
(* (save_world) over the file WORLD_DATA_PATH and its ".bak" sibling.      *)
(* Two deployment variants exist: src/backend/server.py (with diagnostic   *)
(* prints on the received and the stored document) and src/server.py.      *)
(***************************************************************************)
EXTENDS Integers, Sequences, FiniteSets, TLC

(***************************************************************************)
(* Bounds of the model.                                                    *)
(***************************************************************************)
MaxReq == 3        \* requests issued in one run
MaxFaults == 1     \* write-side I/O faults (open for writing, write) per run

(***************************************************************************)
(* JSON values, as Python's json module holds them after json.load /       *)
(* request.get_json: None, bool, int, str, list, dict (insertion ordered). *)
(***************************************************************************)
JNull == [t |-> "null"]
JBool(b) == [t |-> "bool", b |-> b]
JNum(n) == [t |-> "num", n |-> n]
JStr(s) == [t |-> "str", s |-> s]
JArr(a) == [t |-> "arr", a |-> a]
JObj(o) == [t |-> "obj", o |-> o]
KV(k, v) == [k |-> k, v |-> v]

(***************************************************************************)
(* JSON text, as a sequence of lexical tokens.                             *)
(***************************************************************************)
P(s) == [k |-> "p", s |-> s]          \* punctuation { } [ ] : ,
W(s) == [k |-> "w", s |-> s]          \* whitespace
SL(s) == [k |-> "s", s |-> s]         \* string literal "s"
NL(s) == [k |-> "n", s |-> s]         \* number literal
LL(s) == [k |-> "l", s |-> s]         \* true / false / null
Hole == [k |-> "x", s |-> "NUL"]      \* a zero byte of a file hole
Junk == [k |-> "x", s |-> "junk"]     \* bytes that are no JSON token

Digits == <<"0", "1", "2", "3">>
NumText(n) == Digits[n + 1]
IsNumText(s) == \E n \in 1..Len(Digits) : Digits[n] = s
NumVal(s) == (CHOOSE n \in 1..Len(Digits) : Digits[n] = s) - 1

\* newline followed by `level` indents of four spaces (indent=4)
Indents == <<"\n", "\n    ", "\n        ", "\n            ", "\n                ">>
NewlineIndent(level) == W(Indents[level + 1])

RECURSIVE Dump(_, _)
RECURSIVE DumpItems(_, _, _)
RECURSIVE DumpMembers(_, _, _)
\* json.dump(v, f, indent=4): the text written, nesting level `level`
Dump(v, level) ==
    CASE v.t = "null" -> <<LL("null")>>
      [] v.t = "bool" -> <<LL(IF v.b THEN "true" ELSE "false")>>
      [] v.t = "num" -> <<NL(NumText(v.n))>>
      [] v.t = "str" -> <<SL(v.s)>>
      [] v.t = "arr" ->
            IF v.a = <<>> THEN <<P("["), P("]")>>
            ELSE <<P("["), NewlineIndent(level + 1)>>
                 \o DumpItems(v.a, 1, level + 1)
                 \o <<NewlineIndent(level), P("]")>>
      [] v.t = "obj" ->
            IF v.o = <<>> THEN <<P("{"), P("}")>>
            ELSE <<P("{"), NewlineIndent(level + 1)>>
                 \o DumpMembers(v.o, 1, level + 1)
                 \o <<NewlineIndent(level), P("}")>>
DumpItems(a, i, level) ==
    IF i > Len(a) THEN <<>>
    ELSE Dump(a[i], level)
         \o (IF i < Len(a) THEN <<P(","), NewlineIndent(level)>> ELSE <<>>)
         \o DumpItems(a, i + 1, level)
DumpMembers(o, i, level) ==
    IF i > Len(o) THEN <<>>
    ELSE <<SL(o[i].k), P(":"), W(" ")>> \o Dump(o[i].v, level)
         \o (IF i < Len(o) THEN <<P(","), NewlineIndent(level)>> ELSE <<>>)
         \o DumpMembers(o, i + 1, level)

RECURSIVE Compact(_)
RECURSIVE CompactItems(_, _)
RECURSIVE CompactMembers(_, _)
\* the text of a value without whitespace: a client's request body and the
\* body jsonify produces
Compact(v) ==
    CASE v.t = "null" -> <<LL("null")>>
      [] v.t = "bool" -> <<LL(IF v.b THEN "true" ELSE "false")>>
      [] v.t = "num" -> <<NL(NumText(v.n))>>
      [] v.t = "str" -> <<SL(v.s)>>
      [] v.t = "arr" -> <<P("[")>> \o CompactItems(v.a, 1) \o <<P("]")>>
      [] v.t = "obj" -> <<P("{")>> \o CompactMembers(v.o, 1) \o <<P("}")>>
CompactItems(a, i) ==
    IF i > Len(a) THEN <<>>
    ELSE Compact(a[i]) \o (IF i < Len(a) THEN <<P(",")>> ELSE <<>>)
         \o CompactItems(a, i + 1)
CompactMembers(o, i) ==
    IF i > Len(o) THEN <<>>
    ELSE <<SL(o[i].k), P(":")>> \o Compact(o[i].v)
         \o (IF i < Len(o) THEN <<P(",")>> ELSE <<>>)
         \o CompactMembers(o, i + 1)

(***************************************************************************)
(* json.load / json.loads: a recursive-descent parse of the token text.    *)
(* A parse result is [ok, v, i]: success, the value, the next position.    *)
(***************************************************************************)
Bad == [ok |-> FALSE, v |-> JNull, i |-> 0]
Good(v, i) == [ok |-> TRUE, v |-> v, i |-> i]

RECURSIVE SkipWs(_, _)
SkipWs(toks, i) ==
    IF i <= Len(toks) /\ toks[i].k = "w" THEN SkipWs(toks, i + 1) ELSE i

IsTok(toks, i, tok) == i <= Len(toks) /\ toks[i] = tok

\* dict[key] = value: replaces the value of an existing key in place
RECURSIVE DictSet(_, _, _)
DictSet(o, k, v) ==
    IF o = <<>> THEN <<KV(k, v)>>
    ELSE IF o[1].k = k THEN <<KV(k, v)>> \o Tail(o)
    ELSE <<o[1]>> \o DictSet(Tail(o), k, v)

RECURSIVE ParseValue(_, _)
RECURSIVE ParseItems(_, _, _)
RECURSIVE ParseMembers(_, _, _)
ParseValue(toks, i0) ==
    LET i == SkipWs(toks, i0) IN
    IF i > Len(toks) THEN Bad
    ELSE LET tk == toks[i] IN
         CASE tk.k = "l" -> Good(IF tk.s = "null" THEN JNull
                                 ELSE JBool(tk.s = "true"), i + 1)
           [] tk.k = "n" -> IF IsNumText(tk.s) THEN Good(JNum(NumVal(tk.s)), i + 1)
                            ELSE Bad
           [] tk.k = "s" -> Good(JStr(tk.s), i + 1)
           [] tk = P("[") ->
                 LET j == SkipWs(toks, i + 1) IN
                 IF IsTok(toks, j, P("]")) THEN Good(JArr(<<>>), j + 1)
                 ELSE ParseItems(toks, i + 1, <<>>)
           [] tk = P("{") ->
                 LET j == SkipWs(toks, i + 1) IN
                 IF IsTok(toks, j, P("}")) THEN Good(JObj(<<>>), j + 1)
                 ELSE ParseMembers(toks, i + 1, <<>>)
           [] OTHER -> Bad
ParseItems(toks, i, acc) ==
    LET r == ParseValue(toks, i) IN
    IF ~r.ok THEN Bad
    ELSE LET j == SkipWs(toks, r.i) IN
         IF IsTok(toks, j, P(",")) THEN ParseItems(toks, j + 1, Append(acc, r.v))
         ELSE IF IsTok(toks, j, P("]")) THEN Good(JArr(Append(acc, r.v)), j + 1)
         ELSE Bad
ParseMembers(toks, i0, acc) ==
    LET i == SkipWs(toks, i0) IN
    IF ~(i <= Len(toks) /\ toks[i].k = "s") THEN Bad
    ELSE LET c == SkipWs(toks, i + 1) IN
         IF ~IsTok(toks, c, P(":")) THEN Bad
         ELSE LET r == ParseValue(toks, c + 1) IN
              IF ~r.ok THEN Bad
              ELSE LET j == SkipWs(toks, r.i)
                       acc2 == DictSet(acc, toks[i].s, r.v) IN
                   IF IsTok(toks, j, P(",")) THEN ParseMembers(toks, j + 1, acc2)
                   ELSE IF IsTok(toks, j, P("}")) THEN Good(JObj(acc2), j + 1)
                   ELSE Bad

\* json.load(f): the whole text must be one value (else "Extra data")
Load(toks) ==
    LET r == ParseValue(toks, 1) IN
    IF r.ok /\ SkipWs(toks, r.i) > Len(toks) THEN Good(r.v, r.i) ELSE Bad

(***************************************************************************)
(* The documents clients send and files are seeded with.                   *)
(***************************************************************************)
DocEmptyWorld == JObj(<<KV("objects", JArr(<<>>)), KV("spawners", JArr(<<>>))>>)
DocWorld ==
    JObj(<<KV("objects",
              JArr(<<JObj(<<KV("id", JStr("a")),
                            KV("instances", JArr(<<JNum(1), JNum(2)>>))>>)>>)),
           KV("spawners", JArr(<<>>))>>)
DocEmptyObj == JObj(<<>>)
DocArray == JArr(<<JNum(1)>>)
DocString == JStr("a")
DocNumber == JNum(3)
DocTrue == JBool(TRUE)
DocNoId == JObj(<<KV("objects", JArr(<<JObj(<<KV("instances", JArr(<<>>))>>)>>))>>)
DocNoInstances == JObj(<<KV("objects", JArr(<<JObj(<<KV("id", JStr("a"))>>)>>))>>)
DocObjectsNum == JObj(<<KV("objects", JNum(1))>>)

Docs == {DocEmptyWorld, DocWorld, DocEmptyObj, DocArray, DocString, DocNumber,
         DocTrue, JNull, DocNoId, DocNoInstances, DocObjectsNum}

(***************************************************************************)
(* dict.get, len and truthiness as the diagnostic prints use them.         *)
(***************************************************************************)
HasKey(d, key) == \E i \in 1..Len(d.o) : d.o[i].k = key
\* d.get(key, default) on a dict d
PyGet(d, key, default) ==
    IF HasKey(d, key) THEN d.o[CHOOSE i \in 1..Len(d.o) : d.o[i].k = key].v
    ELSE default
\* len(v) is defined (str, list, dict); otherwise TypeError
HasLen(v) == v.t \in {"str", "arr", "obj"}
Truthy(v) ==
    CASE v.t = "null" -> FALSE
      [] v.t = "bool" -> v.b
      [] v.t = "num" -> v.n # 0
      [] v.t = "str" -> v.s # ""
      [] v.t = "arr" -> v.a # <<>>
      [] v.t = "obj" -> v.o # <<>>

\* [obj['id'] for obj in objs] raises (KeyError / TypeError)
IdListRaises(objs) ==
    IF objs.t = "arr"
    THEN \E i \in 1..Len(objs.a) : ~(objs.a[i].t = "obj" /\ HasKey(objs.a[i], "id"))
    ELSE TRUE
\* sum(len(obj.get('instances', [])) for obj in objs) raises
InstancesRaises(objs) ==
    \E i \in 1..Len(objs.a) : ~HasLen(PyGet(objs.a[i], "instances", JArr(<<>>)))

\* the diagnostic prints on the received document raise an exception
DiagRaises(d) ==
    IF d.t # "obj" THEN TRUE
    ELSE \/ ~HasLen(PyGet(d, "objects", JArr(<<>>)))
         \/ ~HasLen(PyGet(d, "spawners", JArr(<<>>)))
         \/ /\ Truthy(PyGet(d, "objects", JNull))
            /\ \/ IdListRaises(PyGet(d, "objects", JArr(<<>>)))
               \/ InstancesRaises(PyGet(d, "objects", JArr(<<>>)))
\* the diagnostic print on the stored document raises an exception
OrigDiagRaises(d) ==
    IF d.t # "obj" THEN TRUE ELSE ~HasLen(PyGet(d, "objects", JArr(<<>>)))

(***************************************************************************)
(* State.                                                                  *)
(***************************************************************************)
Handlers == {1, 2}      \* request-handling threads of the development server

VARIABLES
    variant,    \* "backend" (src/backend/server.py) or "root" (src/server.py)
    main,       \* the file WORLD_DATA_PATH
    bak,        \* the file WORLD_DATA_PATH + '.bak'
    pc,         \* pc[h]: position of handler h
    kind,       \* kind[h]: "get" or "save"
    body,       \* body[h]: the request body
    data,       \* data[h]: save_world's local  data
    wbuf,       \* wbuf[h]: text of the open file object not yet written
    off,        \* off[h]: position of the file object opened for writing
    resp,       \* resp[h]: the response
    stage,      \* stage[h]: the step that raised ("" when none did)
    sent,       \* sent[h]: the document the client serialised into the body
    seen,       \* seen[h]: the other requests in progress when get_world read
    pre,        \* pre[h]: main and bak as they were when the request started
    prev,       \* the request completed last
    hist,       \* summary of the completed saves: succ, a save over an existing
                \* document has succeeded, and want, the main file before the
                \* last such save; dirty, a save after it failed with the
                \* backup file opened, and fail, the main file before that save
    nreq,       \* requests issued
    faults      \* write faults injected

vars == <<variant, main, bak, pc, kind, body, data, wbuf, off, resp, stage,
          sent, seen, pre, prev, hist, nreq, faults>>

NoFile == [exists |-> FALSE, text |-> <<>>, readable |-> TRUE]
File(text, readable) == [exists |-> TRUE, text |-> text, readable |-> readable]

NoBody == [present |-> FALSE, text |-> <<>>]
Body(text) == [present |-> TRUE, text |-> text]
BadBodies == {NoBody, Body(<<Junk>>), Body(<<P("{"), SL("objects")>>)}

NoResp == [status |-> 0, body |-> <<>>]
\* jsonify(v), status
Jsonify(v, status) == [status |-> status, body |-> Compact(v)]
SavedMessage == JObj(<<KV("message", JStr("World data saved successfully"))>>)
ErrorBody(msg) == JObj(<<KV("error", JStr(msg))>>)

\* pre[h].alone: no other save_world has been in progress since h started
NoPre == [main |-> NoFile, bak |-> NoFile, alone |-> TRUE]
Idle == [kind |-> "", pc |-> "idle", body |-> NoBody, sent |-> JNull,
         main |-> NoFile, alone |-> TRUE]
NoPeers == [o \in Handlers |-> Idle]
NoPrev == [kind |-> "none", status |-> 0, valid |-> FALSE, doc |-> JNull]
NoHist == [succ |-> FALSE, want |-> NoFile, dirty |-> FALSE, fail |-> NoFile]

\* files a deployment may start with
SeedMain == {NoFile,
             File(Dump(DocEmptyWorld, 0), TRUE),
             File(Dump(DocArray, 0), TRUE),
             File(Dump(DocEmptyWorld, 0), FALSE),
             File(<<P("{"), NewlineIndent(1), SL("objects")>>, TRUE)}
SeedBak == {NoFile, File(Dump(DocEmptyObj, 0), TRUE)}

\* the service after start-up: no request yet, f write faults already spent
Boot(mains, f) ==
    /\ variant \in {"backend", "root"}
    /\ main \in mains
    /\ bak \in SeedBak
    /\ pc = [h \in Handlers |-> "idle"]
    /\ kind = [h \in Handlers |-> ""]
    /\ body = [h \in Handlers |-> NoBody]
    /\ data = [h \in Handlers |-> JNull]
    /\ wbuf = [h \in Handlers |-> <<>>]
    /\ off = [h \in Handlers |-> 0]
    /\ resp = [h \in Handlers |-> NoResp]
    /\ stage = [h \in Handlers |-> ""]
    /\ sent = [h \in Handlers |-> JNull]
    /\ seen = [h \in Handlers |-> NoPeers]
    /\ pre = [h \in Handlers |-> NoPre]
    /\ prev = NoPrev
    /\ hist = NoHist
    /\ nreq = 0
    /\ faults = f

Init == Boot(SeedMain, 0)

(***************************************************************************)
(* File operations.                                                        *)
(***************************************************************************)
\* mutant of Truncated: the file is opened without truncation (mode 'r+')
TruncatedKeep(f) == File(f.text, IF f.exists THEN f.readable ELSE TRUE)

\* open(path, 'w'): creates the file or truncates it, keeping its mode
Truncated(f) == File(<<>>, IF f.exists THEN f.readable ELSE TRUE)

RECURSIVE Holes(_)
Holes(n) == IF n <= 0 THEN <<>> ELSE <<Hole>> \o Holes(n - 1)

\* write(toks) at position o of a file holding text
WriteAt(text, o, toks) ==
    LET padded == IF o > Len(text) THEN text \o Holes(o - Len(text)) ELSE text IN
    SubSeq(padded, 1, o) \o toks \o SubSeq(padded, o + Len(toks) + 1, Len(padded))

\* the part of the buffered text one write passes to the file
ChunkSize == 24
Chunk(buf) == SubSeq(buf, 1, IF Len(buf) < ChunkSize THEN Len(buf) ELSE ChunkSize)
Rest(buf) == SubSeq(buf, Len(Chunk(buf)) + 1, Len(buf))

\* open(path, 'r') succeeds
CanRead(f) == f.exists /\ f.readable

(***************************************************************************)
(* Handler steps.                                                          *)
(***************************************************************************)
\* except Exception as e: return jsonify({'error': str(e)}), 500
Raise(h, st) ==
    /\ resp' = [resp EXCEPT ![h] = Jsonify(ErrorBody(st), 500)]
    /\ stage' = [stage EXCEPT ![h] = st]
    /\ pc' = [pc EXCEPT ![h] = "done"]

Goto(h, l) ==
    /\ pc' = [pc EXCEPT ![h] = l]
    /\ UNCHANGED <<resp, stage>>

\* handler h is serving a POST
InSave(h) == kind[h] = "save" /\ pc[h] # "idle"

Accept(h, k, b, d) ==
    /\ pc[h] = "idle"
    /\ nreq < MaxReq
    /\ nreq' = nreq + 1
    /\ pc' = [pc EXCEPT ![h] = IF k = "get" THEN "g_read" ELSE "s_parse"]
    /\ kind' = [kind EXCEPT ![h] = k]
    /\ body' = [body EXCEPT ![h] = b]
    /\ sent' = [sent EXCEPT ![h] = d]
    /\ pre' = [x \in Handlers |->
                 IF x = h
                 THEN [main |-> main, bak |-> bak,
                       alone |-> \A y \in Handlers \ {h} : ~InSave(y)]
                 ELSE [pre[x] EXCEPT !.alone = pre[x].alone /\ k # "save"]]
    /\ UNCHANGED <<seen, variant, main, bak, data, wbuf, off, resp, stage, prev, hist, faults>>

\* a client issues GET /api/world
StartGet(h) == Accept(h, "get", NoBody, JNull)
\* a client issues POST /api/world with the JSON text of doc as the body
StartSave(h, doc) == Accept(h, "save", Body(Compact(doc)), doc)
\* a client issues POST /api/world without a body or with a non-JSON body
StartSaveBad(h, b) == Accept(h, "save", b, JNull)

\* the requests the other handlers are serving
Peers(h) ==
    [o \in Handlers |->
        IF o = h THEN Idle
        ELSE [kind |-> kind[o], pc |-> pc[o], body |-> body[o], sent |-> sent[o],
              main |-> pre[o].main, alone |-> pre[o].alone]]

\* mutant of GetWorld: a missing file is created with an empty document
GetWorldCreate(h) ==
    /\ pc[h] = "g_read"
    /\ seen' = [seen EXCEPT ![h] = Peers(h)]
    /\ IF ~main.exists
       THEN /\ main' = File(Dump(DocEmptyObj, 0), TRUE)
            /\ resp' = [resp EXCEPT ![h] = Jsonify(DocEmptyObj, 200)]
            /\ pc' = [pc EXCEPT ![h] = "done"]
            /\ UNCHANGED stage
       ELSE /\ UNCHANGED main
            /\ IF ~CanRead(main) THEN Raise(h, "open")
               ELSE LET r == Load(main.text) IN
                    IF ~r.ok THEN Raise(h, "load")
                    ELSE /\ resp' = [resp EXCEPT ![h] = Jsonify(r.v, 200)]
                         /\ pc' = [pc EXCEPT ![h] = "done"]
                         /\ UNCHANGED stage
    /\ UNCHANGED <<variant, bak, kind, body, data, wbuf, off, sent, pre,
                   prev, hist, nreq, faults>>

\* mutant of GetWorld: a file that cannot be read or parsed yields an empty
\* document with status 200
GetWorldDefault(h) ==
    /\ pc[h] = "g_read"
    /\ seen' = [seen EXCEPT ![h] = Peers(h)]
    /\ resp' = [resp EXCEPT ![h] =
                  IF CanRead(main) /\ Load(main.text).ok
                  THEN Jsonify(Load(main.text).v, 200)
                  ELSE Jsonify(DocEmptyObj, 200)]
    /\ pc' = [pc EXCEPT ![h] = "done"]
    /\ UNCHANGED <<variant, main, bak, kind, body, data, wbuf, off, stage, sent,
                   pre, prev, hist, nreq, faults>>

\* get_world
GetWorld(h) ==
    /\ pc[h] = "g_read"
    /\ seen' = [seen EXCEPT ![h] = Peers(h)]
    /\ IF ~CanRead(main) THEN Raise(h, "open")
       ELSE LET r == Load(main.text) IN
            IF ~r.ok THEN Raise(h, "load")
            ELSE /\ resp' = [resp EXCEPT ![h] = Jsonify(r.v, 200)]
                 /\ pc' = [pc EXCEPT ![h] = "done"]
                 /\ UNCHANGED stage
    /\ UNCHANGED <<variant, main, bak, kind, body, data, wbuf, off, sent, pre,
                   prev, hist, nreq, faults>>

\* request.get_json(): the parsed body; for an absent body (no JSON content
\* type) None or an exception, depending on the Flask release
GetJson(b) ==
    IF ~b.present THEN {Good(JNull, 0), Bad} ELSE {Load(b.text)}

\* save_world: data = request.get_json() and the diagnostic prints
SaveParse(h) ==
    /\ pc[h] = "s_parse"
    /\ \E r \in GetJson(body[h]) :
          IF ~r.ok THEN Raise(h, "parse") /\ UNCHANGED data
          ELSE IF variant = "backend" /\ DiagRaises(r.v)
               THEN Raise(h, "diag") /\ UNCHANGED data
          ELSE /\ data' = [data EXCEPT ![h] = r.v]
               /\ Goto(h, "s_exists")
    /\ UNCHANGED <<seen, variant, main, bak, kind, body, wbuf, off, sent, pre, prev,
                   hist, nreq, faults>>

\* mutant of SaveExists: the backup step is taken without the existence test
SaveExistsAlways(h) ==
    /\ pc[h] = "s_exists"
    /\ Goto(h, "s_openbak")
    /\ UNCHANGED <<seen, variant, main, bak, kind, body, data, wbuf, off, sent, pre,
                   prev, hist, nreq, faults>>

\* save_world: if os.path.exists(WORLD_DATA_PATH)
SaveExists(h) ==
    /\ pc[h] = "s_exists"
    /\ Goto(h, IF main.exists THEN "s_openbak" ELSE "s_openmain")
    /\ UNCHANGED <<seen, variant, main, bak, kind, body, data, wbuf, off, sent, pre,
                   prev, hist, nreq, faults>>

\* mutant of SaveOpenBak: the main file is opened for writing together with
\* the backup file
SaveOpenBakAndMain(h) ==
    /\ pc[h] = "s_openbak"
    /\ \/ /\ bak' = Truncated(bak)
          /\ main' = Truncated(main)
          /\ off' = [off EXCEPT ![h] = 0]
          /\ Goto(h, "s_readmain")
          /\ UNCHANGED faults
       \/ /\ faults < MaxFaults
          /\ faults' = faults + 1
          /\ Raise(h, "openbak")
          /\ UNCHANGED <<bak, main, off>>
    /\ UNCHANGED <<seen, variant, kind, body, data, wbuf, sent, pre, prev, hist, nreq>>

\* save_world: with open(WORLD_DATA_PATH + '.bak', 'w') as f
SaveOpenBak(h) ==
    /\ pc[h] = "s_openbak"
    /\ \/ /\ bak' = Truncated(bak)
          /\ off' = [off EXCEPT ![h] = 0]
          /\ Goto(h, "s_readmain")
          /\ UNCHANGED faults
       \/ /\ faults < MaxFaults
          /\ faults' = faults + 1
          /\ Raise(h, "openbak")
          /\ UNCHANGED <<bak, off>>
    /\ UNCHANGED <<seen, variant, main, kind, body, data, wbuf, sent, pre, prev, hist, nreq>>

\* mutant of SaveReadMain: the received document is dumped into the backup
SaveReadMainNew(h) ==
    /\ pc[h] = "s_readmain"
    /\ IF ~CanRead(main) THEN Raise(h, "readorig") /\ UNCHANGED wbuf
       ELSE LET r == Load(main.text) IN
            IF ~r.ok THEN Raise(h, "loadorig") /\ UNCHANGED wbuf
            ELSE IF variant = "backend" /\ OrigDiagRaises(r.v)
                 THEN Raise(h, "diagorig") /\ UNCHANGED wbuf
            ELSE /\ wbuf' = [wbuf EXCEPT ![h] = Dump(data[h], 0)]
                 /\ Goto(h, "s_writebak")
    /\ UNCHANGED <<seen, variant, main, bak, kind, body, data, off, sent, pre, prev,
                   hist, nreq, faults>>

\* save_world: orig_data = json.load(open(WORLD_DATA_PATH)), the diagnostic
\* print on it, and json.dump(orig_data, f, indent=4) into the file object
SaveReadMain(h) ==
    /\ pc[h] = "s_readmain"
    /\ IF ~CanRead(main) THEN Raise(h, "readorig") /\ UNCHANGED wbuf
       ELSE LET r == Load(main.text) IN
            IF ~r.ok THEN Raise(h, "loadorig") /\ UNCHANGED wbuf
            ELSE IF variant = "backend" /\ OrigDiagRaises(r.v)
                 THEN Raise(h, "diagorig") /\ UNCHANGED wbuf
            ELSE /\ wbuf' = [wbuf EXCEPT ![h] = Dump(r.v, 0)]
                 /\ Goto(h, "s_writebak")
    /\ UNCHANGED <<seen, variant, main, bak, kind, body, data, off, sent, pre, prev,
                   hist, nreq, faults>>

\* save_world: the buffered text reaches the backup file (a full buffer is
\* written out during json.dump, the remainder when the with block closes f)
SaveWriteBak(h) ==
    /\ pc[h] = "s_writebak"
    /\ \/ /\ bak' = [bak EXCEPT !.text = WriteAt(bak.text, off[h], Chunk(wbuf[h]))]
          /\ off' = [off EXCEPT ![h] = off[h] + Len(Chunk(wbuf[h]))]
          /\ wbuf' = [wbuf EXCEPT ![h] = Rest(wbuf[h])]
          /\ Goto(h, IF Rest(wbuf[h]) = <<>> THEN "s_openmain" ELSE "s_writebak")
          /\ UNCHANGED faults
       \/ /\ faults < MaxFaults
          /\ faults' = faults + 1
          /\ Raise(h, "writebak")
          /\ wbuf' = [wbuf EXCEPT ![h] = <<>>]
          /\ UNCHANGED <<bak, off>>
    /\ UNCHANGED <<seen, variant, main, kind, body, data, sent, pre, prev, hist, nreq>>

\* save_world: with open(WORLD_DATA_PATH, 'w') as f: json.dump(data, f, indent=4)
SaveOpenMain(h) ==
    /\ pc[h] = "s_openmain"
    /\ \/ /\ main' = Truncated(main)
          /\ off' = [off EXCEPT ![h] = 0]
          /\ wbuf' = [wbuf EXCEPT ![h] = Dump(data[h], 0)]
          /\ Goto(h, "s_writemain")
          /\ UNCHANGED faults
       \/ /\ faults < MaxFaults
          /\ faults' = faults + 1
          /\ Raise(h, "openmain")
          /\ UNCHANGED <<main, off, wbuf>>
    /\ UNCHANGED <<seen, variant, bak, kind, body, data, sent, pre, prev, hist, nreq>>

\* save_world: the buffered text reaches the main file; after the last write
\* return jsonify({'message': 'World data saved successfully'})
SaveWriteMain(h) ==
    /\ pc[h] = "s_writemain"
    /\ \/ /\ main' = [main EXCEPT !.text = WriteAt(main.text, off[h], Chunk(wbuf[h]))]
          /\ off' = [off EXCEPT ![h] = off[h] + Len(Chunk(wbuf[h]))]
          /\ wbuf' = [wbuf EXCEPT ![h] = Rest(wbuf[h])]
          /\ IF Rest(wbuf[h]) = <<>>
             THEN /\ resp' = [resp EXCEPT ![h] = Jsonify(SavedMessage, 200)]
                  /\ pc' = [pc EXCEPT ![h] = "done"]
                  /\ UNCHANGED stage
             ELSE Goto(h, "s_writemain")
          /\ UNCHANGED faults
       \/ /\ faults < MaxFaults
          /\ faults' = faults + 1
          /\ Raise(h, "writemain")
          /\ wbuf' = [wbuf EXCEPT ![h] = <<>>]
          /\ UNCHANGED <<main, off>>
    /\ UNCHANGED <<seen, variant, bak, kind, body, data, sent, pre, prev, hist, nreq>>

\* stages at which save_world, when the main file existed, has opened the
\* backup file for writing
TouchedBak == {"readorig", "loadorig", "diagorig", "writebak", "openmain", "writemain"}

\* the response of handler h is delivered; the handler serves the next request
Finish(h) ==
    /\ pc[h] = "done"
    /\ prev' = [kind |-> kind[h], status |-> resp[h].status,
                valid |-> kind[h] = "save" /\ body[h] = Body(Compact(sent[h])),
                doc |-> sent[h]]
    /\ hist' = IF kind[h] # "save" THEN hist
               ELSE IF resp[h].status = 200 /\ pre[h].main.exists
                    THEN [succ |-> TRUE, want |-> pre[h].main, dirty |-> FALSE,
                          fail |-> NoFile]
               ELSE IF resp[h].status # 200 /\ pre[h].main.exists
                       /\ stage[h] \in TouchedBak
                    THEN [hist EXCEPT !.dirty = TRUE, !.fail = pre[h].main]
               ELSE hist
    /\ pc' = [pc EXCEPT ![h] = "idle"]
    /\ kind' = [kind EXCEPT ![h] = ""]
    /\ body' = [body EXCEPT ![h] = NoBody]
    /\ data' = [data EXCEPT ![h] = JNull]
    /\ wbuf' = [wbuf EXCEPT ![h] = <<>>]
    /\ off' = [off EXCEPT ![h] = 0]
    /\ resp' = [resp EXCEPT ![h] = NoResp]
    /\ stage' = [stage EXCEPT ![h] = ""]
    /\ sent' = [sent EXCEPT ![h] = JNull]
    /\ seen' = [seen EXCEPT ![h] = NoPeers]
    /\ pre' = [pre EXCEPT ![h] = NoPre]
    /\ UNCHANGED <<variant, main, bak, nreq, faults>>

Step(h) ==
    \/ GetWorld(h)
    \/ SaveParse(h)
    \/ SaveExists(h)
    \/ SaveOpenBak(h)
    \/ SaveReadMain(h)
    \/ SaveWriteBak(h)
    \/ SaveOpenMain(h)
    \/ SaveWriteMain(h)
    \/ Finish(h)

AllIdle == \A h \in Handlers : pc[h] = "idle"

(***************************************************************************)
(* Spec: requests arrive one at a time (each is answered before the next   *)
(* is issued).                                                             *)
(***************************************************************************)
Next ==
    \/ AllIdle /\ StartGet(1)
    \/ \E doc \in Docs : AllIdle /\ StartSave(1, doc)
    \/ \E b \in BadBodies : AllIdle /\ StartSaveBad(1, b)
    \/ Step(1)

Spec == Init /\ [][Next]_vars

(***************************************************************************)
(* SpecConc: the development server handles requests in threads, so two    *)
(* requests may be in progress at once and their steps interleave.  These  *)
(* runs start from a seeded or absent main file and inject no I/O fault.   *)
(***************************************************************************)
MaxConcReq == 2    \* requests issued in one run of SpecConc

ConcDocs == {DocEmptyWorld, DocWorld, DocNumber}

InitConc == Boot({NoFile, File(Dump(DocEmptyWorld, 0), TRUE)}, MaxFaults)

NextConc ==
    \E h \in Handlers :
        \/ nreq < MaxConcReq /\ StartGet(h)
        \/ \E doc \in ConcDocs : nreq < MaxConcReq /\ StartSave(h, doc)
        \/ nreq < MaxConcReq /\ StartSaveBad(h, NoBody)
        \/ Step(h)

SpecConc == InitConc /\ [][NextConc]_vars

(***************************************************************************)
(* Properties.                                                             *)
(***************************************************************************)
\* the error response: status 500 and a JSON object with an error key
IsErrorResp(r) ==
    /\ r.status = 500
    /\ Load(r.body).ok
    /\ Load(r.body).v.t = "obj"
    /\ HasKey(Load(r.body).v, "error")

\* the success response of save_world
IsSavedResp(r) == r.status = 200 /\ Load(r.body) = Load(Compact(SavedMessage))

\* file f exists and its text is JSON for document d
Holds(f, d) == f.exists /\ Load(f.text).ok /\ Load(f.text).v = d

\* handler h has finished a POST whose body was the JSON text of sent[h]
SaveDone(h) == pc[h] = "done" /\ kind[h] = "save"
ValidBody(h) == body[h] = Body(Compact(sent[h]))
GetDone(h) == pc[h] = "done" /\ kind[h] = "get"

\* steps of save_world that come before the main file is opened for writing
BeforeMainWrite == {"parse", "diag", "openbak", "readorig", "loadorig",
                    "diagorig", "writebak"}

\* C1: a GetWorld issued right after a successful SaveWorld(doc), with no
\* request in between, returns status 200 and a body that is JSON for doc.
C1_RoundTrip ==
    \A h \in Handlers :
        (GetDone(h) /\ prev.kind = "save" /\ prev.valid /\ prev.status = 200)
        => /\ resp[h].status = 200
           /\ Load(resp[h].body).ok
           /\ Load(resp[h].body).v = prev.doc

C1_Witness ==
    \E h \in Handlers :
        /\ GetDone(h) /\ prev.kind = "save" /\ prev.valid /\ prev.status = 200
        /\ prev.doc = DocWorld
        /\ Load(resp[h].body).v = DocWorld

\* C2: after a successful SaveWorld(doc2) that started with the main file
\* holding doc1, the backup file holds exactly doc1; when no main file existed
\* the backup step is skipped without error, the backup file is as it was, and
\* a successful call leaves the main file holding doc2.
C2_BackupCorrect ==
    \A h \in Handlers :
        SaveDone(h) =>
          /\ (resp[h].status = 200 /\ pre[h].main.exists)
             => /\ Load(pre[h].main.text).ok
                /\ Holds(bak, Load(pre[h].main.text).v)
          /\ ~pre[h].main.exists
             => /\ stage[h] \in {"", "parse", "diag", "openmain", "writemain"}
                /\ bak = pre[h].bak
                /\ (resp[h].status = 200 /\ ValidBody(h)) => Holds(main, sent[h])

C2_Witness ==
    \E h \in Handlers :
        /\ SaveDone(h) /\ resp[h].status = 200 /\ ValidBody(h)
        /\ pre[h].main = File(Dump(DocEmptyWorld, 0), TRUE)
        /\ sent[h] = DocWorld
        /\ bak # pre[h].bak

\* C3 as stated: once a save over an existing document has succeeded, then
\* after every later sequence of requests (failing saves included) the backup
\* file holds the document that was in the main file right before the most
\* recent successful SaveWorld.
C3_BackupOfLastSuccess ==
    (AllIdle /\ hist.succ) => Holds(bak, Load(hist.want.text).v)

\* C3 amended: the same, unless a SaveWorld issued after the most recent
\* successful one failed after it had opened the backup file for writing;
\* the backup file is then empty, or the text (possibly cut short) of the
\* document that was in the main file right before that failed call.
C3_BackupOfLastSuccessUndisturbed ==
    /\ (AllIdle /\ hist.succ /\ ~hist.dirty)
       => /\ Load(hist.want.text).ok
          /\ Holds(bak, Load(hist.want.text).v)
    /\ (AllIdle /\ hist.dirty)
       => /\ bak.exists
          /\ \/ bak.text = <<>>
             \/ /\ Load(hist.fail.text).ok
                /\ \E n \in 1..Len(Dump(Load(hist.fail.text).v, 0)) :
                      bak.text = SubSeq(Dump(Load(hist.fail.text).v, 0), 1, n)

C3_Witness ==
    /\ AllIdle /\ hist.succ /\ ~hist.dirty
    /\ prev.kind = "save" /\ prev.status = 500
    /\ Holds(bak, DocEmptyWorld)

\* C4: SaveWorld(v) with the JSON text of any value v as the body is not
\* rejected for the shape of v (neither by parsing nor by the diagnostics),
\* and when no later step fails it returns the success response and the main
\* file holds v.
C4_AnyJsonAccepted ==
    \A h \in Handlers :
        (SaveDone(h) /\ ValidBody(h))
        => /\ stage[h] \notin {"parse", "diag"}
           /\ stage[h] = "" => (IsSavedResp(resp[h]) /\ Holds(main, sent[h]))

\* C5: a SaveWorld whose body is absent or not JSON returns the error
\* response and leaves the main file as it was.
C5_MalformedBodyRejected ==
    \A h \in Handlers :
        (SaveDone(h) /\ body[h] \in BadBodies)
        => /\ IsErrorResp(resp[h])
           /\ main = pre[h].main

\* C6: GetWorld returns the error response when the main file is missing,
\* unreadable or not JSON, otherwise 200 with the stored document, and in
\* both cases leaves the main file and the backup file as they were and
\* the handler returns, free to serve the next request.
C6_GetReadOnly ==
    \A h \in Handlers :
        GetDone(h) =>
          /\ main = pre[h].main
          /\ bak = pre[h].bak
          /\ IF main.exists /\ main.readable /\ Load(main.text).ok
             THEN /\ resp[h].status = 200
                  /\ Load(resp[h].body).ok
                  /\ Load(resp[h].body).v = Load(main.text).v
             ELSE IsErrorResp(resp[h])
          /\ ENABLED Finish(h)

C6_Witness ==
    \E h \in Handlers :
        /\ GetDone(h) /\ ~main.exists /\ ~bak.exists
        /\ IsErrorResp(resp[h])
        /\ prev.kind = "get"

\* C7: when reading or parsing the current main document fails, SaveWorld
\* returns the error response and the backup file is as it was before the
\* request.
C7_BackupKeptOnReadFailure ==
    \A h \in Handlers :
        (SaveDone(h) /\ stage[h] \in {"readorig", "loadorig"})
        => /\ IsErrorResp(resp[h])
           /\ bak = pre[h].bak

\* C8: a SaveWorld that fails at a step before the main write returns the
\* error response and the main file is as it was before the request; the main
\* file differs only when the request reached the main write.
C8_NoMainWriteAfterFailure ==
    \A h \in Handlers :
        SaveDone(h) =>
          /\ stage[h] \in BeforeMainWrite
             => (main = pre[h].main /\ IsErrorResp(resp[h]))
          /\ main # pre[h].main => stage[h] \in {"", "writemain"}

C8_Witness ==
    \E h \in Handlers :
        /\ SaveDone(h) /\ stage[h] = "writebak"
        /\ pre[h].main = File(Dump(DocEmptyWorld, 0), TRUE)
        /\ main = pre[h].main
        /\ bak # pre[h].bak

\* C9: when two SaveWorld requests that both reach the file steps have both
\* finished, both returned the success response, the main file holds the
\* document of one of them, and the backup file is a complete JSON document.
C9_LastWriterWins ==
    \A a \in Handlers : \A b \in Handlers :
        (/\ a # b
         /\ SaveDone(a) /\ ValidBody(a) /\ stage[a] \notin {"parse", "diag"}
         /\ SaveDone(b) /\ ValidBody(b) /\ stage[b] \notin {"parse", "diag"})
        => /\ IsSavedResp(resp[a])
           /\ IsSavedResp(resp[b])
           /\ Holds(main, sent[a]) \/ Holds(main, sent[b])
           /\ bak.exists /\ Load(bak.text).ok

\* handler g has finished a GetWorld whose read of the main file happened
\* while handler o was in SaveWorld(doc) over the valid document d0 that the
\* main file held when that request started, no other SaveWorld overlapping it
GetDuringSave(g, o) ==
    /\ g # o
    /\ GetDone(g)
    /\ seen[g][o].kind = "save"
    /\ seen[g][o].pc # "idle"
    /\ seen[g][o].alone
    /\ seen[g][o].body = Body(Compact(seen[g][o].sent))
    /\ seen[g][o].main.exists /\ seen[g][o].main.readable
    /\ Load(seen[g][o].main.text).ok

\* C10 as stated: a GetWorld concurrent with SaveWorld(doc) over the valid
\* document d0 returns status 200 with d0 or doc.
C10_AtomicVisibility ==
    \A g \in Handlers : \A o \in Handlers :
        GetDuringSave(g, o)
        => /\ resp[g].status = 200
           /\ Load(resp[g].body).ok
           /\ Load(resp[g].body).v \in {Load(seen[g][o].main.text).v, seen[g][o].sent}

\* C10 amended: such a GetWorld returns status 200 with d0 or doc, or else
\* the error response because the main file, opened for writing by the save,
\* did not hold a complete JSON text when it was read; it never returns
\* status 200 with another document.
C10_OldNewOrError ==
    \A g \in Handlers : \A o \in Handlers :
        GetDuringSave(g, o)
        => \/ /\ resp[g].status = 200
              /\ Load(resp[g].body).ok
              /\ Load(resp[g].body).v \in {Load(seen[g][o].main.text).v, seen[g][o].sent}
           \/ /\ IsErrorResp(resp[g])
              /\ stage[g] = "load"
              /\ seen[g][o].pc = "s_writemain"

C10_Witness ==
    \E g \in Handlers : \E o \in Handlers :
        /\ GetDuringSave(g, o)
        /\ IsErrorResp(resp[g])
        /\ seen[g][o].pc = "s_writemain"
        /\ seen[g][o].sent = DocWorld
====
